---- MODULE Spec2Model ----
(***************************************************************************)
(* ggm, the git branch manager of src/git_branch_manager.go, as a state    *)
(* machine.  One run of the program is one behaviour: the command line and *)
(* the repository are drawn in Init, the answers of the outside world (the *)
(* exit status of git, the lines typed at the prompt) are drawn when the   *)
(* program asks for them.                                                  *)
(*                                                                         *)
(* A Go string is a sequence of one-character strings, so that prefix,     *)
(* suffix, trimming, splitting, number parsing and byte order are computed *)
(* as the library computes them.                                           *)
(***************************************************************************)
EXTENDS Integers, Sequences, FiniteSets, TLC

VARIABLES
    args,              \* os.Args[1:]: [given, cmd, operands]
    repoBranches,      \* the repository: branch names in the order git prints them
    repoHead,          \* the checked-out branch, <<>> when git marks none
    output,            \* the lines of the last `git branch` output that was read
    pc,                \* where the program stands
    called,            \* the handler main has called, "" before
    force,             \* main: force
    branches,          \* the snapshot's names as the selection sees them
    currentBranch,     \* the snapshot's current branch ("" is <<>>)
    toDelete,          \* the selection handed to confirmAndDeleteBranches
    filteredBranches,  \* filterCurrentBranch's result
    warnings,          \* the index tokens warn() was called for, in order
    notices,           \* how many times the protection notice was printed
    statusMsg,         \* the last status()/usage message that ended a path
    prompted,          \* the lists infoBranches printed under the prompt title
    inputs,            \* the values fmt.Scanln has yielded so far
    next,              \* _deleteBranches: position of the loop in its list
    attempts,          \* every deleteBranch invocation: [branch, force, ok]
    failed,            \* _deleteBranches: the map failed, branch -> message
    report,            \* what deleteBranches printed, NoReport before
    gitCalls,          \* how many times the external tool was run
    listing,           \* what listSortedBranches printed, NoListing before
    exitStatus         \* the process's exit status, -1 while running

vars == <<args, repoBranches, repoHead, output, pc, called, force, branches, currentBranch,
          toDelete, filteredBranches, warnings, notices, statusMsg, prompted,
          inputs, next, attempts, failed, report, gitCalls, listing, exitStatus>>

----------------------------------------------------------------------------
(* Bytes and the strings package                                           *)

\* The characters of the model, in ascending byte order.
Alphabet ==
    <<" ", "*", "+", ",", "-", "0", "1", "2", "3", "4", "5", "6", "7", "8", "9",
      "a", "b", "c", "d", "e", "h", "o", "r", "s", "t">>

Byte(c) == CHOOSE i \in 1..Len(Alphabet) : Alphabet[i] = c

Digits == {"0", "1", "2", "3", "4", "5", "6", "7", "8", "9"}

DigitVal(c) == Byte(c) - Byte("0")

\* strings.HasPrefix
HasPrefix(s, prefix) ==
    /\ Len(s) >= Len(prefix)
    /\ SubSeq(s, 1, Len(prefix)) = prefix

\* strings.HasSuffix
HasSuffix(s, suffix) ==
    /\ Len(s) >= Len(suffix)
    /\ SubSeq(s, Len(s) - Len(suffix) + 1, Len(s)) = suffix

\* strings.Contains
Contains(s, substr) ==
    \E i \in 0..(Len(s) - Len(substr)) : SubSeq(s, i + 1, i + Len(substr)) = substr

RECURSIVE TrimLeft(_, _)
TrimLeft(s, c) ==
    IF s # <<>> /\ Head(s) = c THEN TrimLeft(Tail(s), c) ELSE s

RECURSIVE TrimRight(_, _)
TrimRight(s, c) ==
    IF s # <<>> /\ s[Len(s)] = c THEN TrimRight(SubSeq(s, 1, Len(s) - 1), c) ELSE s

\* strings.Trim(s, cutset) for a cutset of one character
Trim(s, c) == TrimRight(TrimLeft(s, c), c)

\* strings.TrimSpace (the space is the only white space of the alphabet)
TrimSpace(s) == Trim(s, " ")

\* strings.Split(s, sep) for a separator of one character
RECURSIVE SplitFrom(_, _, _)
SplitFrom(s, sep, cur) ==
    IF s = <<>> THEN <<cur>>
    ELSE IF Head(s) = sep THEN <<cur>> \o SplitFrom(Tail(s), sep, <<>>)
    ELSE SplitFrom(Tail(s), sep, Append(cur, Head(s)))

Split(s, sep) == SplitFrom(s, sep, <<>>)

\* strings.Map with a function that keeps the characters of `keep` and drops the rest
RECURSIVE MapKeep(_, _)
MapKeep(s, keep) ==
    IF s = <<>> THEN <<>>
    ELSE IF Head(s) \in keep THEN <<Head(s)>> \o MapKeep(Tail(s), keep)
    ELSE MapKeep(Tail(s), keep)

RECURSIVE DigitsValue(_, _)
DigitsValue(s, acc) ==
    IF s = <<>> THEN acc ELSE DigitsValue(Tail(s), 10 * acc + DigitVal(Head(s)))

\* strconv.Atoi: an optional sign, then one digit at least and digits only.
Atoi(s) ==
    LET signed == s # <<>> /\ Head(s) \in {"+", "-"}
        body   == IF signed THEN Tail(s) ELSE s
    IN  IF body = <<>> \/ \E i \in 1..Len(body) : body[i] \notin Digits
        THEN [err |-> TRUE, val |-> 0]
        ELSE [err |-> FALSE,
              val |-> IF signed /\ Head(s) = "-"
                      THEN 0 - DigitsValue(body, 0) ELSE DigitsValue(body, 0)]

\* Go's < on strings: byte-wise, a proper prefix first.
RECURSIVE StrLess(_, _)
StrLess(s, t) ==
    IF t = <<>> THEN FALSE
    ELSE IF s = <<>> THEN TRUE
    ELSE IF Head(s) # Head(t) THEN Byte(Head(s)) < Byte(Head(t))
    ELSE StrLess(Tail(s), Tail(t))

RECURSIVE InsertSorted(_, _)
InsertSorted(sorted, x) ==
    IF sorted = <<>> THEN <<x>>
    ELSE IF StrLess(x, Head(sorted)) THEN <<x>> \o sorted
    ELSE <<Head(sorted)>> \o InsertSorted(Tail(sorted), x)

\* sort.Strings
RECURSIVE SortStrings(_)
SortStrings(seq) ==
    IF seq = <<>> THEN <<>>
    ELSE InsertSorted(SortStrings(SubSeq(seq, 1, Len(seq) - 1)), seq[Len(seq)])

Range(seq) == {seq[i] : i \in 1..Len(seq)}

Reverse(seq) == [i \in 1..Len(seq) |-> seq[Len(seq) + 1 - i]]

----------------------------------------------------------------------------
(* The external tool                                                       *)

\* What strings.Split(output, "\n") yields for the output of `git branch`:
\* one line per branch, two columns of margin, the checked-out branch
\* marked with an asterisk, and the empty string after the last newline.
GitBranchLines(names, head) ==
    [i \in 1..Len(names) |->
        (IF names[i] = head THEN <<"*", " ">> ELSE <<" ", " ">>) \o names[i]]
    \o << <<>> >>

\* The repository without the branch b.
RECURSIVE Without(_, _)
Without(seq, b) ==
    IF seq = <<>> THEN <<>>
    ELSE IF Head(seq) = b THEN Without(Tail(seq), b)
    ELSE <<Head(seq)>> \o Without(Tail(seq), b)

----------------------------------------------------------------------------
(* The functions of the program                                            *)

\* listBranches, after the command has succeeded: the loop over the lines.
RECURSIVE listBranchesLoop(_, _, _)
listBranchesLoop(lines, nonEmptyBranches, current) ==
    IF lines = <<>> THEN [branches |-> nonEmptyBranches, currentBranch |-> current]
    ELSE LET trimmed == TrimSpace(Head(lines))
             marked  == HasPrefix(trimmed, <<"*">>)
             branch  == IF marked THEN TrimSpace(Tail(trimmed)) ELSE trimmed
         IN  listBranchesLoop(Tail(lines),
                              IF branch # <<>> THEN Append(nonEmptyBranches, branch)
                                               ELSE nonEmptyBranches,
                              IF marked THEN branch ELSE current)

\* The empty lines kept as entries.
listBranchesKeepEmpty(lines) ==
    [branches |->
        [i \in 1..Len(lines) |->
            LET trimmed == TrimSpace(lines[i])
            IN  IF HasPrefix(trimmed, <<"*">>) THEN TrimSpace(Tail(trimmed))
                ELSE trimmed],
     currentBranch |-> listBranchesLoop(lines, <<>>, <<>>).currentBranch]

listBranches(lines) == listBranchesLoop(lines, <<>>, <<>>)

\* Only the first name of the slice compared.
containsFirstOnly(slice, item) == slice # <<>> /\ slice[1] = item

\* contains: membership in the set built from the slice
contains(slice, item) == item \in Range(slice)

\* keepBranches: the loop that builds branchesToDelete
RECURSIVE keepSelect(_, _)
keepSelect(allBranches, branchesToKeep) ==
    IF allBranches = <<>> THEN <<>>
    ELSE LET branch == Head(allBranches)
             rest   == keepSelect(Tail(allBranches), branchesToKeep)
         IN  IF branch # <<>> /\ ~contains(branchesToKeep, branch)
             THEN <<branch>> \o rest ELSE rest

\* filterCurrentBranch: the filtered list and whether the notice is printed
RECURSIVE filterLoop(_, _)
filterLoop(branchesToDelete, current) ==
    IF branchesToDelete = <<>> THEN [filtered |-> <<>>, currentBranchFiltered |-> FALSE]
    ELSE LET rest == filterLoop(Tail(branchesToDelete), current)
         IN  IF Head(branchesToDelete) = current
             THEN [rest EXCEPT !.currentBranchFiltered = TRUE]
             ELSE [rest EXCEPT !.filtered = <<Head(branchesToDelete)>> \o @]

\* The filter left out: every candidate is passed on.
filterNothing(branchesToDelete, current) ==
    [filtered |-> branchesToDelete, currentBranchFiltered |-> FALSE]

\* The filter stopping at the first occurrence of the current branch.
filterFirstOnly(branchesToDelete, current) ==
    LET hits == {i \in 1..Len(branchesToDelete) : branchesToDelete[i] = current}
    IN  IF hits = {} THEN [filtered |-> branchesToDelete, currentBranchFiltered |-> FALSE]
        ELSE LET k == CHOOSE i \in hits : \A j \in hits : i <= j
             IN  [filtered |-> SubSeq(branchesToDelete, 1, k - 1)
                               \o SubSeq(branchesToDelete, k + 1, Len(branchesToDelete)),
                  currentBranchFiltered |-> TRUE]

filterCurrentBranch(branchesToDelete, current) == filterLoop(branchesToDelete, current)

\* The two one-sided wildcards exchanged.
patternMatchSwapped(branch, rawPattern) ==
    LET isPrefixWildcard == HasPrefix(rawPattern, <<"*">>)
        isSuffixWildcard == HasSuffix(rawPattern, <<"*">>)
        pattern          == Trim(rawPattern, "*")
    IN  CASE isPrefixWildcard /\ isSuffixWildcard -> Contains(branch, pattern)
          [] isPrefixWildcard                     -> HasPrefix(branch, pattern)
          [] isSuffixWildcard                     -> HasSuffix(branch, pattern)
          [] OTHER                                -> branch = pattern

\* One asterisk stripped at each flagged end, not all of them.
patternMatchStripOne(branch, rawPattern) ==
    LET isPrefixWildcard == HasPrefix(rawPattern, <<"*">>)
        isSuffixWildcard == HasSuffix(rawPattern, <<"*">>)
        front            == IF isPrefixWildcard THEN Tail(rawPattern) ELSE rawPattern
        pattern          == IF isSuffixWildcard /\ front # <<>>
                            THEN SubSeq(front, 1, Len(front) - 1) ELSE front
    IN  CASE isPrefixWildcard /\ isSuffixWildcard -> Contains(branch, pattern)
          [] isPrefixWildcard                     -> HasSuffix(branch, pattern)
          [] isSuffixWildcard                     -> HasPrefix(branch, pattern)
          [] OTHER                                -> branch = pattern

\* deleteBranchesByPattern: the test applied to one branch name
patternMatch(branch, rawPattern) ==
    LET isPrefixWildcard == HasPrefix(rawPattern, <<"*">>)
        isSuffixWildcard == HasSuffix(rawPattern, <<"*">>)
        pattern          == Trim(rawPattern, "*")
    IN  CASE isPrefixWildcard /\ isSuffixWildcard -> Contains(branch, pattern)
          [] isPrefixWildcard                     -> HasSuffix(branch, pattern)
          [] isSuffixWildcard                     -> HasPrefix(branch, pattern)
          [] OTHER                                -> branch = pattern

\* A pattern without wildcard handed to the deletion as it is.
patternSelectLiteral(names, rawPattern) ==
    LET Hit(n) == patternMatch(n, rawPattern)
    IN  IF HasPrefix(rawPattern, <<"*">>) \/ HasSuffix(rawPattern, <<"*">>)
        THEN SelectSeq(names, Hit)
        ELSE <<rawPattern>>

\* deleteBranchesByPattern: the loop that builds toDelete
RECURSIVE patternSelect(_, _)
patternSelect(names, rawPattern) ==
    IF names = <<>> THEN <<>>
    ELSE LET rest == patternSelect(Tail(names), rawPattern)
         IN  IF patternMatch(Head(names), rawPattern)
             THEN <<Head(names)>> \o rest ELSE rest

\* Digits only: commas and hyphens not accepted.
isIndexSpecDigitsOnly(input) ==
    LET cleaned == MapKeep(input, Digits)
    IN  Len(cleaned) = Len(input) /\ Len(input) > 0

\* isIndexSpec
isIndexSpec(input) ==
    LET cleaned == MapKeep(input, Digits \cup {",", "-"})
    IN  Len(cleaned) = Len(input) /\ Len(input) > 0

\* deleteBranchesByIndexes: the body of the loop for one comma-separated
\* token; what it appends to selectedBranches and whether it warns.
indexToken(rawSpec, sorted) ==
    LET spec    == TrimSpace(rawSpec)
        skip    == [selected |-> <<>>, warned |-> FALSE]
        warning == [selected |-> <<>>, warned |-> TRUE]
    IN  IF spec = <<>> THEN skip
        ELSE IF Contains(spec, <<"-">>)
        THEN LET rangeParts == Split(spec, "-")
             IN  IF Len(rangeParts) # 2 THEN warning
                 ELSE LET s == Atoi(TrimSpace(rangeParts[1]))
                          e == Atoi(TrimSpace(rangeParts[2]))
                          start == s.val - 1
                          end   == e.val - 1
                      IN  IF s.err \/ e.err THEN warning
                          ELSE IF start < 0 \/ end >= Len(sorted) \/ start > end
                          THEN warning
                          ELSE [selected |-> SubSeq(sorted, start + 1, end + 1),
                                warned |-> FALSE]
        ELSE LET a   == Atoi(spec)
                 idx == a.val - 1
             IN  IF a.err THEN warning
                 ELSE IF idx < 0 \/ idx >= Len(sorted) THEN warning
                 ELSE [selected |-> <<sorted[idx + 1]>>, warned |-> FALSE]

\* The loop left at the first token that warns.
RECURSIVE indexLoopBreak(_, _, _)
indexLoopBreak(specs, sorted, acc) ==
    IF specs = <<>> THEN acc
    ELSE LET r == indexToken(Head(specs), sorted)
         IN  IF r.warned
             THEN [acc EXCEPT !.warnings = Append(@, TrimSpace(Head(specs)))]
             ELSE indexLoopBreak(Tail(specs), sorted,
                                 [acc EXCEPT !.selectedBranches = @ \o r.selected])

\* deleteBranchesByIndexes: the loop over the tokens
RECURSIVE indexLoop(_, _, _)
indexLoop(specs, sorted, acc) ==
    IF specs = <<>> THEN acc
    ELSE LET r == indexToken(Head(specs), sorted)
         IN  indexLoop(Tail(specs), sorted,
                       [selectedBranches |-> acc.selectedBranches \o r.selected,
                        warnings |-> IF r.warned
                                     THEN Append(acc.warnings, TrimSpace(Head(specs)))
                                     ELSE acc.warnings])

\* The sort left out.
indexOrderUnsorted(names) == names

\* deleteBranchesByIndexes: the order the indexes refer to
indexOrder(names) == SortStrings(names)

indexSelect(sorted, indexSpec) ==
    indexLoop(Split(indexSpec, ","), sorted,
              [selectedBranches |-> <<>>, warnings |-> <<>>])

\* deleteBranches: the numbers of the report, from the list and the map failed
deleteReport(list, failedMap) ==
    LET deletedCount == Len(list) - Cardinality(DOMAIN failedMap)
    IN  [deleted    |-> deletedCount,
         total      |-> Len(list),
         notDeleted |-> Len(list) - deletedCount,
         failures   |-> {<<b, failedMap[b]>> : b \in DOMAIN failedMap}]

----------------------------------------------------------------------------
(* The runs that are explored                                              *)

MaxBranches == 2     \* branches in a generated repository
MaxKeep     == 2     \* names on a keep command line
MaxReads    == 2     \* values read at the prompt in one run

\* Names a repository may hold.  "12" is a name that is also an index spec.
BranchPool == { <<"a">>, <<"a", "b">>, <<"1", "2">> }

\* A name that no repository holds, for keep lists.
Absent == <<"d">>

IsAscending(seq)  == \A i \in 1..(Len(seq) - 1) : StrLess(seq[i], seq[i + 1])
IsDescending(seq) == \A i \in 1..(Len(seq) - 1) : StrLess(seq[i + 1], seq[i])

\* git prints the branches by its sort key, here the name, ascending or
\* descending (branch.sort = refname or -refname).
Repos ==
    { seq \in UNION { [1..n -> BranchPool] : n \in 0..MaxBranches } :
        IsAscending(seq) \/ IsDescending(seq) }

KeepLists ==
    { seq \in UNION { [1..n -> BranchPool \cup {Absent}] : n \in 1..MaxKeep } :
        IsAscending(seq) }

\* Patterns: a core between zero, one or two asterisks on either side.
PatternCores == { <<>>, <<"a">>, <<"b">>, <<"a", "b">> }
Stars        == { <<>>, <<"*">>, <<"*", "*">> }

Patterns ==
    { pre \o core \o post : pre \in Stars, core \in PatternCores, post \in Stars }
    \cup { <<"a", "*", "b">>, <<"*", "a", "*", "b">>, <<"1", "*">>, <<"*", "2">>,
           <<"1", "a">> }

\* Index specs: one token, or two tokens around a comma.
IndexTokens ==
    { <<>>, <<"1">>, <<"2">>, <<"3">>, <<"0">>,
      <<"1", "-", "2">>, <<"2", "-", "1">>, <<"1", "-">>,
      <<"1", "-", "2", "-", "3">> }

IndexSpecs ==
    ( IndexTokens
      \cup { t \o <<",">> \o u : t \in IndexTokens, u \in IndexTokens }
      \cup { <<"1", "2">> } ) \ { <<>> }

CommandLines ==
    { [given |-> FALSE, cmd |-> "", operands |-> <<>>] }
    \cup { [given |-> TRUE, cmd |-> c, operands |-> <<>>] :
             c \in {"list", "--help", "-h", "keep", "Keep", "delete", "Delete", "prune"} }
    \cup { [given |-> TRUE, cmd |-> c, operands |-> k] :
             c \in {"keep", "Keep"}, k \in KeepLists }
    \cup { [given |-> TRUE, cmd |-> c, operands |-> <<a>>] :
             c \in {"delete", "Delete"}, a \in Patterns \cup IndexSpecs }

\* The cases the specification works out by hand.
TestA == <<"t", "e", "s", "t", "-", "a">>
TestB == <<"t", "e", "s", "t", "-", "b">>
Other == <<"o", "t", "h", "e", "r">>

ExampleRuns ==
    { [args |-> [given |-> TRUE, cmd |-> c, operands |-> k],
       names |-> <<TestA, TestB, Other>>, head |-> h] :
        c \in {"keep", "Keep"},
        k \in { <<Absent>>, <<Other, Absent>>, <<TestB>> },
        h \in { <<>>, TestA } }
    \cup
    { [args |-> [given |-> TRUE, cmd |-> c, operands |-> <<a>>],
       names |-> <<TestA, TestB, Other>>, head |-> h] :
        c \in {"delete", "Delete"},
        a \in { <<"t", "e", "s", "t", "*">>, <<"*", "e", "s", "t", "*">>,
                <<"*", "-", "a">>, TestA, <<"*", "*">> },
        h \in { <<>>, TestA, Other } }
    \cup
    { [args |-> [given |-> TRUE, cmd |-> c, operands |-> <<a>>],
       names |-> n, head |-> h] :
        c \in {"delete", "Delete"},
        a \in { <<"2", ",", "4">>, <<"1", "-", "3">>, <<"5">>, <<"2", "-", "1">>,
                <<"1", "-", "3", ",", "2", "-", "4">>, <<"5", ",", "1">> },
        n \in { << <<"a">>, <<"b">>, <<"c">>, <<"d">> >>,
                << <<"d">>, <<"c">>, <<"b">>, <<"a">> >> },
        h \in { <<>>, <<"b">> } }

GenericRuns ==
    { [args |-> a, names |-> n, head |-> h] :
        a \in CommandLines,
        n \in Repos,
        h \in BranchPool \cup { <<>> } }

Runs == { r \in GenericRuns : r.head = <<>> \/ r.head \in Range(r.names) }
        \cup ExampleRuns

\* What fmt.Scanln may yield at the prompt.
InputValues == {"yes", "no", "maybe", "Yes"}

NoReport  == [deleted |-> -1, total |-> -1, notDeleted |-> -1, failures |-> {}]
NoListing == << <<"-">> >>
NoOutput  == << <<"-">>, <<"-">>, <<"-">> >>
ListingFailed == << <<"-">>, <<"-">> >>
EmptyMap  == [b \in {} |-> ""]

InitOn(runs) ==
    /\ \E r \in runs :
          /\ args = r.args
          /\ repoBranches = r.names
          /\ repoHead = r.head
    /\ output = NoOutput
    /\ pc = "main"
    /\ called = ""
    /\ force = FALSE
    /\ branches = <<>>
    /\ currentBranch = <<>>
    /\ toDelete = <<>>
    /\ filteredBranches = <<>>
    /\ warnings = <<>>
    /\ notices = 0
    /\ statusMsg = ""
    /\ prompted = <<>>
    /\ inputs = <<>>
    /\ next = 0
    /\ attempts = <<>>
    /\ failed = EmptyMap
    /\ report = NoReport
    /\ gitCalls = 0
    /\ listing = NoListing
    /\ exitStatus = -1

Init == InitOn(Runs)

----------------------------------------------------------------------------
(* The steps of the program                                                *)

Exit(code) == pc' = "exit" /\ exitStatus' = code

\* The handler returns to main: delete and Delete go on to list the
\* branches, the other commands fall off the end of main.
ReturnToMain ==
    IF args.cmd \in {"delete", "Delete"}
    THEN pc' = "listSortedBranches" /\ exitStatus' = exitStatus
    ELSE Exit(0)

\* The operand required of delete and Delete only.
missingOperandDeleteOnly(a) ==
    Len(a.operands) < 1 /\ a.cmd \in {"delete", "Delete"}

\* main: the test len(args) < 2 of keep, Keep, delete and Delete.
missingOperand(a) == Len(a.operands) < 1

\* The message printed and the command ended with status 0.
FatalStatusZero(msg) == statusMsg' = msg /\ Exit(0)

\* log.Fatalf: the message, then os.Exit(1).
Fatal(msg) == statusMsg' = msg /\ Exit(1)

\* main: argument checks and dispatch.
Main ==
    /\ pc = "main"
    /\ UNCHANGED <<args, output, repoBranches, repoHead, branches, currentBranch, toDelete,
                   filteredBranches, warnings, notices, prompted, inputs, next,
                   attempts, failed, report, gitCalls, listing>>
    /\ CASE ~args.given ->
              statusMsg' = "help" /\ force' = force /\ Exit(0)
         [] args.given /\ args.cmd \in {"--help", "-h"} ->
              statusMsg' = "help" /\ force' = force /\ Exit(0)
         [] args.given /\ args.cmd = "list" ->
              /\ pc' = "listSortedBranches"
              /\ UNCHANGED <<statusMsg, force, exitStatus>>
         [] args.given /\ args.cmd \in {"keep", "Keep"} ->
              IF missingOperand(args)
              THEN Fatal("Usage: keep") /\ force' = force
              ELSE /\ force' = (args.cmd = "Keep")
                   /\ pc' = "keepBranches"
                   /\ UNCHANGED <<statusMsg, exitStatus>>
         [] args.given /\ args.cmd \in {"delete", "Delete"} ->
              IF missingOperand(args)
              THEN Fatal("Usage: delete") /\ force' = force
              ELSE /\ force' = (args.cmd = "Delete")
                   /\ pc' = IF isIndexSpec(args.operands[1])
                            THEN "deleteBranchesByIndexes"
                            ELSE "deleteBranchesByPattern"
                   /\ UNCHANGED <<statusMsg, exitStatus>>
         [] OTHER ->
              Fatal("Invalid command") /\ force' = force
    /\ called' = (IF pc' = "exit" THEN "" ELSE pc')

\* The error reported and the handler left by a plain return.
EnumerationFailsReturns ==
    /\ gitCalls' = gitCalls + 1
    /\ statusMsg' = "Error listing branches"
    /\ ReturnToMain
    /\ UNCHANGED <<args, output, called, repoBranches, repoHead, force, branches,
                   currentBranch, toDelete, filteredBranches, warnings, notices,
                   prompted, inputs, next, attempts, failed, report, listing>>

\* A handler's call of listBranches fails: the command ends with status 1.
EnumerationFails ==
    /\ gitCalls' = gitCalls + 1
    /\ statusMsg' = "Error listing branches"
    /\ Exit(1)
    /\ UNCHANGED <<args, output, called, repoBranches, repoHead, force, branches, currentBranch,
                   toDelete, filteredBranches, warnings, notices, prompted, inputs,
                   next, attempts, failed, report, listing>>

\* The emptiness test after the filtering left out.
ConfirmAndDeleteBranchesNoEmptyTest(branchesToDelete, current) ==
    LET f == filterCurrentBranch(branchesToDelete, current)
    IN  /\ toDelete' = branchesToDelete
        /\ filteredBranches' = f.filtered
        /\ notices' = IF f.currentBranchFiltered THEN notices + 1 ELSE notices
        /\ prompted' = Append(prompted, f.filtered)
        /\ pc' = "confirmDeletion"
        /\ UNCHANGED <<statusMsg, exitStatus>>

\* confirmAndDeleteBranches up to its first read of the standard input.
ConfirmAndDeleteBranches(branchesToDelete, current) ==
    LET f == filterCurrentBranch(branchesToDelete, current)
    IN  /\ toDelete' = branchesToDelete
        /\ filteredBranches' = f.filtered
        /\ notices' = IF f.currentBranchFiltered THEN notices + 1 ELSE notices
        /\ IF Len(f.filtered) = 0
           THEN /\ statusMsg' = "No branches to delete."
                /\ prompted' = prompted
                /\ ReturnToMain
           ELSE /\ prompted' = Append(prompted, f.filtered)
                /\ pc' = "confirmDeletion"
                /\ UNCHANGED <<statusMsg, exitStatus>>

\* keepBranches
KeepBranches ==
    /\ pc = "keepBranches"
    /\ \/ EnumerationFails
       \/ LET snap == listBranches(output')
          IN  /\ output' = GitBranchLines(repoBranches, repoHead)
              /\ gitCalls' = gitCalls + 1
              /\ branches' = snap.branches
              /\ currentBranch' = snap.currentBranch
              /\ ConfirmAndDeleteBranches(keepSelect(snap.branches, args.operands),
                                          snap.currentBranch)
              /\ UNCHANGED <<args, called, repoBranches, repoHead, force, warnings, inputs,
                             next, attempts, failed, report, listing>>

\* deleteBranchesByPattern
DeleteBranchesByPattern ==
    /\ pc = "deleteBranchesByPattern"
    /\ \/ EnumerationFails
       \/ LET snap     == listBranches(output')
              selected == patternSelect(snap.branches, args.operands[1])
          IN  /\ output' = GitBranchLines(repoBranches, repoHead)
              /\ gitCalls' = gitCalls + 1
              /\ branches' = snap.branches
              /\ currentBranch' = snap.currentBranch
              /\ IF Len(selected) = 0
                 THEN /\ statusMsg' = "No branches match the given pattern."
                      /\ toDelete' = selected
                      /\ ReturnToMain
                      /\ UNCHANGED <<filteredBranches, notices, prompted>>
                 ELSE ConfirmAndDeleteBranches(selected, snap.currentBranch)
              /\ UNCHANGED <<args, called, repoBranches, repoHead, force, warnings, inputs,
                             next, attempts, failed, report, listing>>

\* deleteBranchesByIndexes
DeleteBranchesByIndexes ==
    /\ pc = "deleteBranchesByIndexes"
    /\ \/ EnumerationFails
       \/ LET snap   == listBranches(output')
              sorted == indexOrder(snap.branches)
              parsed == indexSelect(sorted, args.operands[1])
          IN  /\ output' = GitBranchLines(repoBranches, repoHead)
              /\ gitCalls' = gitCalls + 1
              /\ branches' = sorted
              /\ currentBranch' = snap.currentBranch
              /\ warnings' = parsed.warnings
              /\ IF Len(parsed.selectedBranches) = 0
                 THEN /\ statusMsg' = "No valid branches selected by the provided indexes."
                      /\ toDelete' = parsed.selectedBranches
                      /\ ReturnToMain
                      /\ UNCHANGED <<filteredBranches, notices, prompted>>
                 ELSE ConfirmAndDeleteBranches(parsed.selectedBranches,
                                               snap.currentBranch)
              /\ UNCHANGED <<args, called, repoBranches, repoHead, force, inputs, next,
                             attempts, failed, report, listing>>

\* The comparison made case-insensitive.
confirmAnswerAnyCase(input) ==
    IF input \in {"yes", "Yes"} THEN "confirmed"
    ELSE IF input \in {"no", "No"} THEN "cancelled"
    ELSE "again"

\* Enter alone taken as consent.
confirmAnswerDefaultYes(input) ==
    IF input \in {"yes", ""} THEN "confirmed"
    ELSE IF input = "no" THEN "cancelled"
    ELSE "again"

\* confirmDeletion: what one turn of its loop does with the value read.
confirmAnswer(input) ==
    IF input = "yes" THEN "confirmed"
    ELSE IF input = "no" THEN "cancelled"
    ELSE "again"

\* confirmDeletion: one turn of its loop, fmt.Scanln yielding one of values.
ConfirmDeletionReading(values) ==
    /\ pc = "confirmDeletion"
    /\ Len(inputs) < MaxReads
    /\ \E input \in values :
          /\ inputs' = Append(inputs, input)
          /\ IF confirmAnswer(input) = "confirmed"
             THEN /\ pc' = "deleteBranches"
                  /\ next' = 1
                  /\ UNCHANGED <<statusMsg, exitStatus>>
             ELSE IF confirmAnswer(input) = "cancelled"
             THEN /\ statusMsg' = "Deletion cancelled"
                  /\ next' = next
                  /\ ReturnToMain
             ELSE UNCHANGED <<pc, next, statusMsg, exitStatus>>
    /\ UNCHANGED <<args, output, called, repoBranches, repoHead, force, branches, currentBranch,
                   toDelete, filteredBranches, warnings, notices, prompted,
                   attempts, failed, report, gitCalls, listing>>

ConfirmDeletion == ConfirmDeletionReading(InputValues)

\* The outcomes git can give for `git branch -d|-D b`: it cannot delete a
\* branch that is not there or that is checked out, and what it refused
\* once in this run it refuses again; otherwise it deletes, or refuses
\* (unmerged work under -d, a branch in use by another worktree).
GitDeleteOutcomes(b) ==
    IF b \notin Range(repoBranches) THEN {"not found"}
    ELSE IF b = repoHead \/ b \in DOMAIN failed THEN {"refused"}
    ELSE {"deleted", "refused"}

\* The deletion always safe.
deleteFlagSafeOnly(forced) == "-d"

\* deleteBranch: the flag of the git command it runs.
deleteFlag(forced) == IF forced THEN "-D" ELSE "-d"

\* deleteBranch: nil, or the error it returns.
deleteBranch(branch, outcome) ==
    IF outcome = "deleted" THEN [err |-> FALSE, msg |-> ""]
    ELSE [err |-> TRUE, msg |-> outcome]

\* The loop left at the first error.
loopAfterAbort(n, err) == IF err THEN Len(filteredBranches) + 1 ELSE n + 1

\* _deleteBranches: where the range loop stands after the turn at position
\* n, whose deleteBranch returned an error or not.
loopAfter(n, err) == n + 1

\* _deleteBranches: one turn of its loop.
DeleteNextBranch ==
    /\ pc = "deleteBranches"
    /\ next <= Len(filteredBranches)
    /\ LET branch == filteredBranches[next]
       IN  \E outcome \in GitDeleteOutcomes(branch) :
              LET r == deleteBranch(branch, outcome)
              IN  /\ gitCalls' = gitCalls + 1
                  /\ attempts' = Append(attempts,
                                        [branch |-> branch, force |-> force,
                                         flag |-> deleteFlag(force),
                                         ok |-> ~r.err])
                  /\ repoBranches' = IF r.err THEN repoBranches
                                     ELSE Without(repoBranches, branch)
                  /\ failed' = IF r.err
                               THEN [b \in DOMAIN failed \cup {branch} |->
                                        IF b = branch THEN r.msg ELSE failed[b]]
                               ELSE failed
                  /\ next' = loopAfter(next, r.err)
    /\ UNCHANGED <<args, output, called, repoHead, pc, force, branches, currentBranch, toDelete,
                   filteredBranches, warnings, notices, statusMsg, prompted, inputs,
                   report, listing, exitStatus>>

\* deleteBranches, after _deleteBranches has returned: the report.
DeleteBranchesReport ==
    /\ pc = "deleteBranches"
    /\ next > Len(filteredBranches)
    /\ report' = deleteReport(filteredBranches, failed)
    /\ ReturnToMain
    /\ UNCHANGED <<args, output, called, repoBranches, repoHead, force, branches, currentBranch,
                   toDelete, filteredBranches, warnings, notices, statusMsg,
                   prompted, inputs, next, attempts, failed, gitCalls, listing>>

\* The handler's snapshot sorted and printed, without a new enumeration.
ListSortedBranchesStale ==
    /\ pc = "listSortedBranches"
    /\ listing' = SortStrings(branches)
    /\ Exit(0)
    /\ UNCHANGED <<args, output, called, repoBranches, repoHead, force, branches,
                   currentBranch, toDelete, filteredBranches, warnings, notices,
                   statusMsg, prompted, inputs, next, attempts, failed, report,
                   gitCalls>>

\* listSortedBranches
ListSortedBranches ==
    /\ pc = "listSortedBranches"
    /\ \/ /\ gitCalls' = gitCalls + 1
          /\ listing' = ListingFailed
          /\ Exit(1)
          /\ UNCHANGED <<args, output, called, repoBranches, repoHead, force, branches,
                         currentBranch, toDelete, filteredBranches, warnings,
                         notices, statusMsg, prompted, inputs, next, attempts,
                         failed, report>>
       \/ LET snap == listBranches(output')
          IN  /\ output' = GitBranchLines(repoBranches, repoHead)
              /\ gitCalls' = gitCalls + 1
              /\ listing' = SortStrings(snap.branches)
              /\ Exit(0)
              /\ UNCHANGED <<args, called, repoBranches, repoHead, force, branches,
                             currentBranch, toDelete, filteredBranches, warnings,
                             notices, statusMsg, prompted, inputs, next, attempts,
                             failed, report>>

Next ==
    \/ Main
    \/ KeepBranches
    \/ DeleteBranchesByPattern
    \/ DeleteBranchesByIndexes
    \/ ConfirmDeletion
    \/ DeleteNextBranch
    \/ DeleteBranchesReport
    \/ ListSortedBranches

Spec == Init /\ [][Next]_vars

\* The prompt with more kinds of answers, on the worked examples: a word in
\* another case, an abbreviation, and the empty string that fmt.Scanln
\* leaves in input on an empty line or at the end of the input.
PromptInputs == {"yes", "no", "maybe", "Yes", "y", "No", ""}

InitPrompt == InitOn(ExampleRuns)

ConfirmDeletionAnyAnswer == ConfirmDeletionReading(PromptInputs)

\* The steps the program takes by itself; a read waits for the user.
ProgramStep ==
    \/ Main
    \/ KeepBranches
    \/ DeleteBranchesByPattern
    \/ DeleteBranchesByIndexes
    \/ DeleteNextBranch
    \/ DeleteBranchesReport
    \/ ListSortedBranches

NextPrompt ==
    \/ ProgramStep
    \/ ConfirmDeletionAnyAnswer

\* The program never stops by itself between two statements; nothing is
\* assumed of the user.
SpecPrompt == InitPrompt /\ [][NextPrompt]_vars /\ WF_vars(ProgramStep)

----------------------------------------------------------------------------
(* The older variant of the tool: list, keep and delete with a pattern     *)

\* listBranches of the older variant: every line of the output trimmed and
\* without its marker, the empty ones included; no current branch.
listBranchesOld(lines) ==
    [i \in 1..Len(lines) |->
        LET trimmed == TrimSpace(lines[i])
        IN  IF HasPrefix(trimmed, <<"*">>) THEN TrimSpace(Tail(trimmed)) ELSE trimmed]

\* keepBranches of the older variant: the loop that builds branchesToDelete.
RECURSIVE keepSelectOld(_, _)
keepSelectOld(allBranches, branchesToKeep) ==
    IF allBranches = <<>> THEN <<>>
    ELSE LET branch == Head(allBranches)
             rest   == keepSelectOld(Tail(allBranches), branchesToKeep)
         IN  IF branch # <<>> /\ ~contains(branchesToKeep, branch)
             THEN <<branch>> \o rest ELSE rest

\* main of the older variant.
MainOld ==
    /\ pc = "main"
    /\ UNCHANGED <<args, output, repoBranches, repoHead, force, branches, currentBranch,
                   toDelete, filteredBranches, warnings, notices, prompted, inputs,
                   next, attempts, failed, report, gitCalls, listing>>
    /\ CASE ~args.given ->
              statusMsg' = "Usage" /\ Exit(1)
         [] args.given /\ args.cmd = "list" ->
              pc' = "listSortedBranches" /\ UNCHANGED <<statusMsg, exitStatus>>
         [] args.given /\ args.cmd = "keep" ->
              IF Len(args.operands) < 1
              THEN statusMsg' = "Usage: keep" /\ Exit(1)
              ELSE pc' = "keepBranches" /\ UNCHANGED <<statusMsg, exitStatus>>
         [] args.given /\ args.cmd = "delete" ->
              IF Len(args.operands) < 1
              THEN statusMsg' = "Usage: delete" /\ Exit(1)
              ELSE pc' = "deleteBranchesByPattern" /\ UNCHANGED <<statusMsg, exitStatus>>
         [] OTHER ->
              statusMsg' = "Invalid command" /\ Exit(1)
    /\ called' = (IF pc' = "exit" THEN "" ELSE pc')

\* listSortedBranches of the older variant.
ListSortedBranchesOld ==
    /\ pc = "listSortedBranches"
    /\ gitCalls' = gitCalls + 1
    /\ \/ /\ listing' = ListingFailed
          /\ output' = output
          /\ Exit(1)
       \/ /\ output' = GitBranchLines(repoBranches, repoHead)
          /\ listing' = SortStrings(listBranchesOld(output'))
          /\ Exit(0)
    /\ UNCHANGED <<args, called, repoBranches, repoHead, force, branches, currentBranch,
                   toDelete, filteredBranches, warnings, notices, statusMsg, prompted,
                   inputs, next, attempts, failed, report>>

\* keepBranches of the older variant, up to its first read: the list is
\* printed and the prompt follows, whatever the list holds.
KeepBranchesOld ==
    /\ pc = "keepBranches"
    /\ \/ EnumerationFails
       \/ /\ output' = GitBranchLines(repoBranches, repoHead)
          /\ gitCalls' = gitCalls + 1
          /\ branches' = listBranchesOld(output')
          /\ toDelete' = keepSelectOld(branches', args.operands)
          /\ filteredBranches' = toDelete'
          /\ prompted' = Append(prompted, toDelete')
          /\ pc' = "confirmDeletion"
          /\ UNCHANGED <<args, called, repoBranches, repoHead, force, currentBranch,
                         warnings, notices, statusMsg, inputs, next, attempts, failed,
                         report, listing, exitStatus>>

\* keepBranches of the older variant: one turn of its prompt loop.
KeepConfirmOld == ConfirmDeletionReading(InputValues)

\* keepBranches of the older variant: one turn of its deletion loop, which
\* collects the errors and goes on.
KeepDeleteNextOld == DeleteNextBranch

\* keepBranches of the older variant: after the loop, the errors if any.
KeepBranchesEndOld ==
    /\ pc = "deleteBranches"
    /\ next > Len(filteredBranches)
    /\ statusMsg' = IF failed # EmptyMap THEN "Errors occurred during deletion"
                    ELSE statusMsg
    /\ Exit(0)
    /\ UNCHANGED <<args, output, called, repoBranches, repoHead, force, branches,
                   currentBranch, toDelete, filteredBranches, warnings, notices,
                   prompted, inputs, next, attempts, failed, report, gitCalls, listing>>

\* deleteBranchesByPattern of the older variant, up to the first match of
\* its loop.
DeleteBranchesByPatternOld ==
    /\ pc = "deleteBranchesByPattern"
    /\ \/ EnumerationFails
       \/ /\ output' = GitBranchLines(repoBranches, repoHead)
          /\ gitCalls' = gitCalls + 1
          /\ branches' = listBranchesOld(output')
          /\ toDelete' = patternSelect(branches', args.operands[1])
          /\ IF toDelete' = <<>>
             THEN /\ statusMsg' = "No branches were deleted that match the pattern"
                  /\ next' = next
                  /\ Exit(0)
             ELSE /\ pc' = "deleteMatches"
                  /\ next' = 1
                  /\ UNCHANGED <<statusMsg, exitStatus>>
          /\ UNCHANGED <<args, called, repoBranches, repoHead, force, currentBranch,
                         filteredBranches, warnings, notices, prompted, inputs,
                         attempts, failed, report, listing>>

\* deleteBranchesByPattern of the older variant: the loop at its next
\* match. The match is deleted at once; the first error ends the command.
DeleteNextMatchOld ==
    /\ pc = "deleteMatches"
    /\ next <= Len(toDelete)
    /\ LET branch == toDelete[next]
       IN  \E outcome \in GitDeleteOutcomes(branch) :
              LET r == deleteBranch(branch, outcome)
              IN  /\ gitCalls' = gitCalls + 1
                  /\ attempts' = Append(attempts,
                                        [branch |-> branch, force |-> FALSE,
                                         flag |-> "-d", ok |-> ~r.err])
                  /\ repoBranches' = IF r.err THEN repoBranches
                                     ELSE Without(repoBranches, branch)
                  /\ next' = next + 1
                  /\ IF r.err
                     THEN statusMsg' = "Error deleting branch" /\ Exit(1)
                     ELSE /\ statusMsg' = statusMsg
                          /\ IF next' > Len(toDelete) THEN Exit(0)
                             ELSE UNCHANGED <<pc, exitStatus>>
    /\ UNCHANGED <<args, output, called, repoHead, force, branches, currentBranch,
                   toDelete, filteredBranches, warnings, notices, prompted, inputs,
                   failed, report, listing>>

NextOld ==
    \/ MainOld
    \/ ListSortedBranchesOld
    \/ KeepBranchesOld
    \/ KeepConfirmOld
    \/ KeepDeleteNextOld
    \/ KeepBranchesEndOld
    \/ DeleteBranchesByPatternOld
    \/ DeleteNextMatchOld

SpecOld == Init /\ [][NextOld]_vars

----------------------------------------------------------------------------
(* listBranches on the outputs git branch can print                        *)

MaxLines == 2        \* lines of an output before its last newline

\* What a line holds besides white space: a branch name, the description
\* git prints for a detached HEAD (it has a space inside), or nothing.
LineNames == { <<"a">>, <<"a", "b">>, <<"a", " ", "b">> }

Margins == { <<>>, <<" ", " ">> }

Trailers == { <<>>, <<" ">> }

\* The lines of the branches that are not checked out, and blank lines.
PlainLines ==
    { m \o n \o t : m \in Margins, n \in LineNames \cup { <<>> }, t \in Trailers }

\* The line of the checked-out branch.
MarkedLines ==
    { m \o <<"*">> \o g \o n \o t :
        m \in Margins, g \in { <<>>, <<" ">> }, n \in LineNames, t \in Trailers }

IsMarkedLine(l) == l \in MarkedLines

\* The outputs: up to MaxLines lines, at most one of them marked, then the
\* empty string strings.Split yields after the last newline.
OutputTexts ==
    { body \o << <<>> >> :
        body \in { b \in UNION { [1..n -> PlainLines \cup MarkedLines] : n \in 0..MaxLines } :
                     Len(SelectSeq(b, IsMarkedLine)) <= 1 } }

InitParse ==
    /\ output \in OutputTexts
    /\ args = [given |-> TRUE, cmd |-> "list", operands |-> <<>>]
    /\ repoBranches = <<>>
    /\ repoHead = <<>>
    /\ pc = "listBranches"
    /\ called = "listSortedBranches"
    /\ force = FALSE
    /\ branches = <<>>
    /\ currentBranch = <<>>
    /\ toDelete = <<>>
    /\ filteredBranches = <<>>
    /\ warnings = <<>>
    /\ notices = 0
    /\ statusMsg = ""
    /\ prompted = <<>>
    /\ inputs = <<>>
    /\ next = 0
    /\ attempts = <<>>
    /\ failed = EmptyMap
    /\ report = NoReport
    /\ gitCalls = 1
    /\ listing = NoListing
    /\ exitStatus = -1

\* listBranches, from the output of the command to its return.
ListBranchesReturns ==
    /\ pc = "listBranches"
    /\ LET snap == listBranches(output)
       IN  /\ branches' = snap.branches
           /\ currentBranch' = snap.currentBranch
    /\ pc' = "listed"
    /\ UNCHANGED <<args, output, called, repoBranches, repoHead, force, toDelete,
                   filteredBranches, warnings, notices, statusMsg, prompted, inputs,
                   next, attempts, failed, report, gitCalls, listing, exitStatus>>

NextParse == ListBranchesReturns

SpecParse == InitParse /\ [][NextParse]_vars

----------------------------------------------------------------------------
(* Properties                                                              *)

AttemptNames == [i \in 1..Len(attempts) |-> attempts[i].branch]

Succeeded == {i \in 1..Len(attempts) : attempts[i].ok}

Arg == args.operands[1]

\* C1: whatever the command, the request and the answers at the prompt,
\* the branch git marks as checked out is in no list shown at the prompt,
\* not in the list handed to the deletion loop, and deleteBranch is never
\* invoked on it.
C1_CurrentBranchNeverDeleted ==
    repoHead # <<>> =>
        /\ \A i \in 1..Len(attempts) : attempts[i].branch # repoHead
        /\ \A k \in 1..Len(prompted) : repoHead \notin Range(prompted[k])
        /\ pc = "deleteBranches" => repoHead \notin Range(filteredBranches)

\* A run in which the selection held the current branch and the deletion
\* went through on the others.
C1_Witness ==
    /\ repoHead # <<>>
    /\ repoHead \in Range(toDelete)
    /\ report # NoReport
    /\ Len(attempts) >= 2

\* The first value read that confirmDeletion recognises, "" if none.
FirstRecognised ==
    LET hits == {i \in 1..Len(inputs) : inputs[i] \in {"yes", "no"}}
    IN  IF hits = {} THEN ""
        ELSE inputs[CHOOSE i \in hits : \A j \in hits : i <= j]

\* C2: deleteBranch is invoked only after confirmDeletion has read "yes";
\* when the first recognised value is "no" the command is cancelled, no
\* deletion has been invoked and the repository holds the branches of the
\* snapshot.
C2_NoDeletionBeforeYes ==
    /\ (attempts # <<>> \/ pc = "deleteBranches" \/ report # NoReport)
          => (inputs # <<>> /\ inputs[Len(inputs)] = "yes")
    /\ FirstRecognised = "no" =>
          /\ statusMsg = "Deletion cancelled"
          /\ pc \in {"listSortedBranches", "exit"}
          /\ attempts = <<>>
          /\ report = NoReport
          /\ Range(repoBranches) = Range(branches)
          /\ Len(repoBranches) = Len(branches)

\* The run of the specification's example: "maybe", then "no".
C2_Witness ==
    /\ inputs = <<"maybe", "no">>
    /\ statusMsg = "Deletion cancelled"
    /\ pc = "exit"
    /\ Len(repoBranches) >= 2

\* C7: once the deletion loop runs on the filtered list, deleteBranch is
\* invoked once per element, in the order of the list, whether the earlier
\* invocations failed or not; when the report is printed every element has
\* been attempted.
C7_EveryCandidateAttempted ==
    /\ pc = "deleteBranches" =>
          /\ next >= 1 /\ next <= Len(filteredBranches) + 1
          /\ AttemptNames = SubSeq(filteredBranches, 1, next - 1)
    /\ report # NoReport => AttemptNames = filteredBranches
    /\ attempts # <<>> => \A i \in 1..Len(attempts) :
                              attempts[i].branch = filteredBranches[i]

\* Three candidates, the second of which failed, and the report printed.
C7_Witness ==
    /\ report # NoReport
    /\ Len(filteredBranches) = 3
    /\ Len(attempts) = 3
    /\ attempts[1].ok /\ ~attempts[2].ok /\ attempts[3].ok

\* C10: filterCurrentBranch removes every occurrence of the current branch
\* from its argument, keeps the others in their order and prints the
\* notice once; without an occurrence it returns its argument and prints
\* nothing.
C10_FilterCurrentBranch ==
    LET NotCurrent(b) == b # currentBranch
    IN  IF currentBranch \in Range(toDelete)
        THEN /\ filteredBranches = SelectSeq(toDelete, NotCurrent)
             /\ notices = 1
        ELSE /\ pc \notin {"main", "keepBranches", "deleteBranchesByPattern",
                           "deleteBranchesByIndexes"}
                   => filteredBranches = toDelete
             /\ notices = 0

\* The current branch selected twice among other branches.
C10_Witness ==
    /\ Cardinality({i \in 1..Len(toDelete) : toDelete[i] = currentBranch}) = 2
    /\ Len(filteredBranches) >= 1
    /\ notices = 1


KeepRun   == args.cmd \in {"keep", "Keep"} /\ called = "keepBranches"
Selected  == pc \in {"confirmDeletion", "deleteBranches", "listSortedBranches", "exit"}
                /\ statusMsg # "Error listing branches"
WasDeleted(b) == \E i \in Succeeded : attempts[i].branch = b

\* C3: keep and Keep select the branches of the snapshot that are not on
\* the keep list, in snapshot order (a kept name that is no branch changes
\* nothing), and after "yes" deletion is attempted on the members of the
\* snapshot that are neither kept nor current, in that order.
C3_KeepSelection ==
    (KeepRun /\ Selected) =>
        LET K               == Range(args.operands)
            NotKept(b)      == b \notin K
            NotKeptHere(b)  == b \notin (K \cap Range(branches))
            Doomed(b)       == b \notin K /\ b # currentBranch
        IN  /\ attempts = <<>> => branches = repoBranches
            /\ currentBranch = repoHead
            /\ toDelete = SelectSeq(branches, NotKept)
            /\ toDelete = SelectSeq(branches, NotKeptHere)
            /\ report # NoReport => AttemptNames = SelectSeq(branches, Doomed)

\* Three branches, a keep list of one branch and one absent name, "yes".
C3_Witness ==
    /\ KeepRun
    /\ report # NoReport
    /\ Len(branches) = 3
    /\ Len(args.operands) = 2
    /\ Absent \in Range(args.operands)
    /\ Len(attempts) = 2

IsStar(c) == c = "*"

\* The pattern without its leading and trailing asterisks.
Bare(raw) ==
    LET n == Len(raw)
    IN  CHOOSE p \in {SubSeq(raw, i, j) : i \in 1..(n + 1), j \in 0..n} :
           \E i \in 1..(n + 1), j \in 0..n :
              /\ p = SubSeq(raw, i, j)
              /\ i <= j + 1
              /\ \A k \in 1..(i - 1) : IsStar(raw[k])
              /\ \A k \in (j + 1)..n : IsStar(raw[k])
              /\ p = <<>> \/ (~IsStar(p[1]) /\ ~IsStar(p[Len(p)]))

OccursIn(p, n) == \E u \in 0..Len(n), v \in 0..Len(n) : u <= v /\ p = SubSeq(n, u + 1, v)
EndsWith(n, p)   == \E k \in 0..Len(n) : p = SubSeq(n, k + 1, Len(n))
StartsWith(n, p) == \E k \in 0..Len(n) : p = SubSeq(n, 1, k)

\* The rule of the pattern mode.
Matches(n, raw) ==
    LET leading  == raw # <<>> /\ IsStar(raw[1])
        trailing == raw # <<>> /\ IsStar(raw[Len(raw)])
        p        == Bare(raw)
    IN  IF leading /\ trailing THEN OccursIn(p, n)
        ELSE IF leading THEN EndsWith(n, p)
        ELSE IF trailing THEN StartsWith(n, p)
        ELSE n = p

PatternRun == called = "deleteBranchesByPattern"

\* C4: in pattern mode a branch is selected iff it contains, ends with,
\* starts with or equals the bare pattern, according to the asterisks at
\* the two ends of the argument; the selection keeps snapshot order; the
\* worked examples on test-a, test-b, other come out as stated, and an
\* empty bare pattern between asterisks selects every branch.
C4_PatternSelection ==
    (PatternRun /\ Selected) =>
        LET Hit(n) == Matches(n, Arg)
            both   == Arg # <<>> /\ IsStar(Arg[1]) /\ IsStar(Arg[Len(Arg)])
        IN  /\ attempts = <<>> => branches = repoBranches
            /\ toDelete = SelectSeq(branches, Hit)
            /\ (both /\ Bare(Arg) = <<>>) => toDelete = branches
            /\ branches = <<TestA, TestB, Other>> =>
                  /\ Arg = <<"t", "e", "s", "t", "*">> => toDelete = <<TestA, TestB>>
                  /\ Arg = <<"*", "e", "s", "t", "*">> => toDelete = <<TestA, TestB>>
                  /\ Arg = <<"*", "-", "a">> => toDelete = <<TestA>>
                  /\ Arg = TestA => toDelete = <<TestA>>
                  /\ Arg = <<"*", "*">> => toDelete = <<TestA, TestB, Other>>

\* `*-a` on test-a, test-b, other, at the prompt.
C4_Witness ==
    /\ PatternRun
    /\ pc = "confirmDeletion"
    /\ Arg = <<"*", "-", "a">>
    /\ branches = <<TestA, TestB, Other>>
    /\ prompted = << <<TestA>> >>

IsNumber(t) == t # <<>> /\ \A i \in 1..Len(t) : t[i] \in Digits

RECURSIVE Pow10(_)
Pow10(k) == IF k = 0 THEN 1 ELSE 10 * Pow10(k - 1)

RECURSIVE SumTo(_, _)
SumTo(t, k) ==
    IF k = 0 THEN 0 ELSE SumTo(t, k - 1) + DigitVal(t[k]) * Pow10(Len(t) - k)

\* The number a string of digits denotes.
Number(t) == SumTo(t, Len(t))

Hyphens(t) == {i \in 1..Len(t) : t[i] = "-"}

RangeLow(t)  == LET h == CHOOSE i \in Hyphens(t) : TRUE IN SubSeq(t, 1, h - 1)
RangeHigh(t) == LET h == CHOOSE i \in Hyphens(t) : TRUE IN SubSeq(t, h + 1, Len(t))

\* A token that names a position or an inclusive range of 1..n.
ValidIndex(t, n) == IsNumber(t) /\ 1 <= Number(t) /\ Number(t) <= n
ValidRange(t, n) ==
    /\ Cardinality(Hyphens(t)) = 1
    /\ IsNumber(RangeLow(t)) /\ IsNumber(RangeHigh(t))
    /\ 1 <= Number(RangeLow(t))
    /\ Number(RangeLow(t)) <= Number(RangeHigh(t))
    /\ Number(RangeHigh(t)) <= n

\* What a token selects from the sorted list.
TokenSelection(t, sorted) ==
    IF ValidIndex(t, Len(sorted)) THEN <<sorted[Number(t)]>>
    ELSE IF ValidRange(t, Len(sorted))
    THEN SubSeq(sorted, Number(RangeLow(t)), Number(RangeHigh(t)))
    ELSE <<>>

RECURSIVE Concat(_)
Concat(seqs) == IF seqs = <<>> THEN <<>> ELSE Head(seqs) \o Concat(Tail(seqs))

IndexRun == called = "deleteBranchesByIndexes"

NotDeleted(b) == ~WasDeleted(b)

ABCD == << <<"a">>, <<"b">>, <<"c">>, <<"d">> >>

\* C5: in index mode the snapshot is sorted in byte order, the order in
\* which the list command numbers the branches; a token n selects position
\* n, a token a-b positions a to b; the selection is the concatenation of
\* the tokens' selections in token order, repetitions included.
C5_IndexSelection ==
    /\ (IndexRun /\ Selected) =>
          LET tokens == Split(Arg, ",")
          IN  /\ IsAscending(branches)
              /\ attempts = <<>> =>
                    (Range(branches) = Range(repoBranches)
                       /\ Len(branches) = Len(repoBranches))
              /\ toDelete =
                    Concat([i \in 1..Len(tokens) |-> TokenSelection(tokens[i], branches)])
              /\ (pc = "exit" /\ listing # ListingFailed) =>
                    listing = SelectSeq(branches, NotDeleted)
              /\ branches = ABCD =>
                    /\ Arg = <<"2", ",", "4">> => toDelete = << <<"b">>, <<"d">> >>
                    /\ Arg = <<"1", "-", "3">> =>
                          toDelete = << <<"a">>, <<"b">>, <<"c">> >>
    /\ (called = "listSortedBranches" /\ pc = "exit" /\ listing # ListingFailed) =>
          (IsAscending(listing) /\ Range(listing) = Range(repoBranches)
             /\ Len(listing) = Len(repoBranches))

\* Overlapping ranges on d, c, b, a: positions 1-3 and 2-4 of a, b, c, d.
C5_Witness ==
    /\ IndexRun
    /\ Arg = <<"1", "-", "3", ",", "2", "-", "4">>
    /\ repoBranches = Reverse(ABCD)
    /\ toDelete = << <<"a">>, <<"b">>, <<"c">>, <<"b">>, <<"c">>, <<"d">> >>
    /\ pc = "confirmDeletion"

\* The faults of a token, as the warnings name them.
Offending(t, n) ==
    \/ Cardinality(Hyphens(t)) > 1
    \/ /\ Cardinality(Hyphens(t)) = 1
       /\ \/ ~IsNumber(RangeLow(t)) \/ ~IsNumber(RangeHigh(t))
          \/ Number(RangeLow(t)) < 1 \/ Number(RangeHigh(t)) > n
          \/ Number(RangeLow(t)) > Number(RangeHigh(t))
    \/ /\ Hyphens(t) = {}
       /\ ~IsNumber(t) \/ Number(t) < 1 \/ Number(t) > n

RangeSize(t) == Number(RangeHigh(t)) - Number(RangeLow(t)) + 1

RECURSIVE SumSeq(_)
SumSeq(ns) == IF ns = <<>> THEN 0 ELSE Head(ns) + SumSeq(Tail(ns))

C8_ReportCountsAttempts ==
    report # NoReport =>
        /\ report.total = Len(attempts)
        /\ report.deleted = Cardinality(Succeeded)
        /\ report.notDeleted = Len(attempts) - Cardinality(Succeeded)
        /\ Cardinality(report.failures) = Len(attempts) - Cardinality(Succeeded)

IndexChars(a) == a # <<>> /\ \A i \in 1..Len(a) : a[i] \in Digits \cup {",", "-"}

----------------------------------------------------------------------------
NothingToDoMessages ==
    { "No branches to delete.", "No branches match the given pattern.",
      "No valid branches selected by the provided indexes." }

NotCurrent(b) == b # currentBranch

\* C11: when a handler has selected, and the selection without the current
\* branch is empty (nothing selected, or only the current branch), the
\* command says there is nothing to do and goes back to main: no prompt has
\* been printed, nothing has been read from the standard input, no deletion
\* has been invoked and no report made; the only git call is the enumeration.
C11_NothingToDo ==
    (called # "" /\ called # "listSortedBranches" /\ Selected
       /\ SelectSeq(toDelete, NotCurrent) = <<>>) =>
        /\ statusMsg \in NothingToDoMessages
        /\ statusMsg = IF called = "keepBranches" \/ toDelete # <<>>
                       THEN "No branches to delete."
                       ELSE IF called = "deleteBranchesByPattern"
                       THEN "No branches match the given pattern."
                       ELSE "No valid branches selected by the provided indexes."
        /\ filteredBranches = <<>>
        /\ prompted = <<>>
        /\ inputs = <<>>
        /\ attempts = <<>>
        /\ failed = EmptyMap
        /\ report = NoReport
        /\ pc \in {"listSortedBranches", "exit"}
        /\ pc = "exit" => exitStatus \in {0, 1}
        /\ (pc = "exit" /\ exitStatus = 1) => listing = ListingFailed
        /\ Range(repoBranches) = Range(branches)
        /\ gitCalls = IF pc = "exit" /\ args.cmd \in {"delete", "Delete"} THEN 2 ELSE 1

\* Only the current branch was selected: the notice, then nothing to do.
C11_Witness ==
    /\ called = "deleteBranchesByPattern"
    /\ toDelete = <<currentBranch>>
    /\ currentBranch # <<>>
    /\ Len(branches) = 2
    /\ notices = 1
    /\ statusMsg = "No branches to delete."
    /\ prompted = <<>>
    /\ pc = "exit"
    /\ exitStatus = 0

----------------------------------------------------------------------------
LastInput == inputs[Len(inputs)]

Recognised == {"yes", "no"}

\* One step taken at the prompt: it reads one value; on "yes" the deletion
\* loop is entered with nothing deleted yet, on "no" the handler returns
\* with the cancellation message, and on any other value everything but
\* the record of the values read is as it was.
PromptTurn ==
    pc = "confirmDeletion" =>
        /\ Len(inputs') = Len(inputs) + 1
        /\ SubSeq(inputs', 1, Len(inputs)) = inputs
        /\ UNCHANGED <<args, output, called, repoBranches, repoHead, force, branches,
                       currentBranch, toDelete, filteredBranches, warnings, notices,
                       prompted, attempts, failed, report, gitCalls, listing>>
        /\ LET input == inputs'[Len(inputs')]
           IN  CASE input = "yes" ->
                      /\ pc' = "deleteBranches"
                      /\ next' = 1
                      /\ UNCHANGED <<statusMsg, exitStatus>>
                 [] input = "no" ->
                      /\ statusMsg' = "Deletion cancelled"
                      /\ pc' = IF args.cmd \in {"delete", "Delete"}
                               THEN "listSortedBranches" ELSE "exit"
                      /\ pc' = "exit" => exitStatus' = 0
                      /\ next' = next
                 [] OTHER ->
                      UNCHANGED <<pc, next, statusMsg, exitStatus>>

\* C12: the prompt is left only by reading exactly "yes" (to the deletion
\* loop) or exactly "no" (cancelled); any other value read, "Yes", "y", "No"
\* and the empty string among them, leaves the command at the prompt with
\* nothing deleted and nothing else changed. A command past its prompt has
\* read one recognised value, the last one; once that value is read the
\* command goes on to its end, and without it the command stays at the
\* prompt.
C12_PromptLeftOnlyByYesOrNo ==
    /\ [][PromptTurn]_vars
    /\ [](prompted # <<>> =>
            /\ pc \in {"confirmDeletion", "deleteBranches", "listSortedBranches", "exit"}
            /\ pc = "confirmDeletion" <=>
                 \A i \in 1..Len(inputs) : inputs[i] \notin Recognised
            /\ pc # "confirmDeletion" =>
                 /\ inputs # <<>>
                 /\ LastInput \in Recognised
                 /\ \A i \in 1..(Len(inputs) - 1) : inputs[i] \notin Recognised
            /\ (attempts # <<>> \/ pc = "deleteBranches") => LastInput = "yes")
    /\ (prompted # <<>> /\ pc # "confirmDeletion") ~> (pc = "exit")

\* "y", then an empty read: the command is still at the prompt, with the
\* repository as it was.
C12_Witness ==
    /\ pc = "confirmDeletion"
    /\ inputs = <<"y", "">>
    /\ prompted # <<>>
    /\ attempts = <<>>
    /\ report = NoReport
    /\ statusMsg = ""
    /\ gitCalls = 1
    /\ exitStatus = -1

----------------------------------------------------------------------------
\* What the handler main has called selects from the snapshot: a function
\* of the handler, the snapshot and the operands, not of the command word.
ExpectedSelection ==
    LET NotKept(b) == b \notin Range(args.operands)
        Hit(b)     == Matches(b, Arg)
        tokens     == Split(Arg, ",")
    IN  CASE called = "keepBranches" -> SelectSeq(branches, NotKept)
          [] called = "deleteBranchesByPattern" -> SelectSeq(branches, Hit)
          [] called = "deleteBranchesByIndexes" ->
               Concat([i \in 1..Len(tokens) |-> TokenSelection(tokens[i], branches)])
          [] OTHER -> <<>>

SafeWords   == {"keep", "delete"}
ForcedWords == {"Keep", "Delete"}

\* C13: keep and Keep are dispatched to the same handler, and so are delete
\* and Delete (which of its two handlers depends on the operand alone); the
\* selection, the filtered list, the list shown at the prompt and the order
\* of the attempts are those of the handler, the snapshot and the operands,
\* whatever the case of the command word; every deletion of keep and delete
\* is run as git branch -d, every deletion of Keep and Delete as git
\* branch -D.
C13_PairsDifferInStrengthOnly ==
    /\ called = "keepBranches" <=>
          (pc # "main" /\ args.given /\ args.cmd \in {"keep", "Keep"}
             /\ args.operands # <<>>)
    /\ called \in {"deleteBranchesByPattern", "deleteBranchesByIndexes"} <=>
          (pc # "main" /\ args.given /\ args.cmd \in {"delete", "Delete"}
             /\ args.operands # <<>>)
    /\ called = "deleteBranchesByIndexes" =>
          (Arg # <<>> /\ \A i \in 1..Len(Arg) : Arg[i] \in Digits \cup {",", "-"})
    /\ called \in {"keepBranches", "deleteBranchesByPattern",
                   "deleteBranchesByIndexes"} =>
          /\ force = (args.cmd \in ForcedWords)
          /\ args.cmd \in SafeWords \cup ForcedWords
          /\ Selected =>
                /\ toDelete = ExpectedSelection
                /\ filteredBranches = SelectSeq(toDelete, NotCurrent)
                /\ prompted \in { <<>>, <<filteredBranches>> }
                /\ prompted = <<>> <=> filteredBranches = <<>>
                /\ AttemptNames = SubSeq(filteredBranches, 1, Len(attempts))
                /\ report # NoReport => AttemptNames = filteredBranches
    /\ \A i \in 1..Len(attempts) :
          /\ attempts[i].force = (args.cmd \in ForcedWords)
          /\ args.cmd \in SafeWords => attempts[i].flag = "-d"
          /\ args.cmd \in ForcedWords => attempts[i].flag = "-D"

\* Keep with two branches to delete: both attempted with -D.
C13_Witness ==
    /\ args.cmd = "Keep"
    /\ called = "keepBranches"
    /\ report # NoReport
    /\ Len(attempts) = 2
    /\ attempts[1].flag = "-D" /\ attempts[2].flag = "-D"
    /\ attempts[1].branch # attempts[2].branch
    /\ pc = "exit"

----------------------------------------------------------------------------
Handlers == {"keepBranches", "deleteBranchesByPattern", "deleteBranchesByIndexes"}

\* C14: when the enumeration of a handler fails (keep, Keep, delete,
\* Delete) the command is at its exit with status 1 and that git call is
\* its only one: no output was read or parsed, nothing was selected or
\* filtered, no warning, notice or prompt was printed, nothing was read,
\* no deletion was invoked, nothing was listed. When the enumeration of
\* listSortedBranches fails (list, and the listing that ends delete and
\* Delete) the command is at its exit with status 1 and the failed call is
\* its last git call; for list it is the only one. A command ends with
\* status 1 after a git call in these cases only.
C14_EnumerationFailureAborts ==
    /\ statusMsg = "Error listing branches" =>
          /\ called \in Handlers
          /\ pc = "exit" /\ exitStatus = 1
          /\ gitCalls = 1
          /\ output = NoOutput
          /\ branches = <<>> /\ currentBranch = <<>>
          /\ toDelete = <<>> /\ filteredBranches = <<>>
          /\ warnings = <<>> /\ notices = 0
          /\ prompted = <<>> /\ inputs = <<>>
          /\ attempts = <<>> /\ failed = EmptyMap /\ report = NoReport
          /\ listing = NoListing
    /\ listing = ListingFailed =>
          /\ pc = "exit" /\ exitStatus = 1
          /\ statusMsg # "Error listing branches"
          /\ called = "listSortedBranches" =>
                /\ args.cmd = "list"
                /\ gitCalls = 1
                /\ output = NoOutput
                /\ branches = <<>> /\ toDelete = <<>>
                /\ prompted = <<>> /\ inputs = <<>> /\ attempts = <<>>
          /\ called # "listSortedBranches" =>
                /\ called \in {"deleteBranchesByPattern", "deleteBranchesByIndexes"}
                /\ gitCalls = 2 + Len(attempts)
                /\ output = GitBranchLines(branches, currentBranch)
                     \/ called = "deleteBranchesByIndexes"
    /\ (pc = "exit" /\ exitStatus = 1 /\ gitCalls > 0) =>
          (statusMsg = "Error listing branches" \/ listing = ListingFailed)
    /\ (pc = "exit" /\ exitStatus = 0 /\ gitCalls > 0) =>
          (statusMsg # "Error listing branches" /\ listing # ListingFailed
             /\ output # NoOutput)

\* delete with a pattern in a repository of two branches: git branch fails.
C14_Witness ==
    /\ called = "deleteBranchesByPattern"
    /\ statusMsg = "Error listing branches"
    /\ Len(repoBranches) = 2
    /\ repoHead # <<>>
    /\ gitCalls = 1
    /\ attempts = <<>>
    /\ pc = "exit"
    /\ exitStatus = 1

----------------------------------------------------------------------------
WithOperand == {"keep", "Keep", "delete", "Delete"}

OperandMissing == args.given /\ args.cmd \in WithOperand /\ args.operands = <<>>

\* C15: keep, Keep, delete or Delete without an operand: main ends the
\* command in its first step with the usage message of the command and
\* status 1; git was never run, neither to enumerate nor to delete, no
\* handler was called, nothing was printed at the prompt or read, and the
\* repository is untouched. No command runs git before main has checked
\* its arguments.
C15_UsageErrorBeforeRepositoryAccess ==
    /\ pc = "main" => (gitCalls = 0 /\ output = NoOutput)
    /\ (OperandMissing /\ pc # "main") =>
          /\ pc = "exit" /\ exitStatus = 1
          /\ statusMsg = IF args.cmd \in {"keep", "Keep"}
                         THEN "Usage: keep" ELSE "Usage: delete"
          /\ called = ""
          /\ gitCalls = 0
          /\ output = NoOutput
          /\ branches = <<>> /\ currentBranch = <<>>
          /\ toDelete = <<>> /\ filteredBranches = <<>>
          /\ prompted = <<>> /\ inputs = <<>>
          /\ attempts = <<>> /\ report = NoReport
          /\ listing = NoListing

\* Keep alone in a repository of two branches.
C15_Witness ==
    /\ args.given /\ args.cmd = "Keep" /\ args.operands = <<>>
    /\ Len(repoBranches) = 2
    /\ statusMsg = "Usage: keep"
    /\ gitCalls = 0
    /\ pc = "exit"
    /\ exitStatus = 1

KnownCommands == {"list", "--help", "-h", "keep", "Keep", "delete", "Delete"}

UnknownCommand == args.given /\ args.cmd \notin KnownCommands

\* No command, an unknown command, or a command without its operand.
InvalidInvocation == ~args.given \/ UnknownCommand \/ OperandMissing

\* C16 as stated: every command line with invalid or missing arguments ends
\* with a usage message and a status other than 0.
C16_InvalidArgumentsExitNonZero ==
    (InvalidInvocation /\ pc = "exit") =>
        (exitStatus # 0 /\ statusMsg \in {"Usage: keep", "Usage: delete",
                                          "Invalid command", "help"})

\* C16, amended: an unknown command ends with the invalid-command message
\* and status 1, keep, Keep, delete or Delete without operand with the
\* usage message and status 1; no command at all prints the help, as --help
\* and -h do, and ends with status 0. None of them runs git.
C16_InvalidArgumentsAmended ==
    (pc = "exit" /\ (InvalidInvocation \/ args.cmd \in {"--help", "-h"})) =>
        /\ gitCalls = 0 /\ called = ""
        /\ UnknownCommand => (statusMsg = "Invalid command" /\ exitStatus = 1)
        /\ OperandMissing =>
              (statusMsg \in {"Usage: keep", "Usage: delete"} /\ exitStatus = 1)
        /\ ~args.given => (statusMsg = "help" /\ exitStatus = 0)
        /\ (args.given /\ args.cmd \in {"--help", "-h"}) =>
              (statusMsg = "help" /\ exitStatus = 0)

\* No argument at all: the help, status 0.
C16_Witness ==
    /\ ~args.given
    /\ pc = "exit"
    /\ statusMsg = "help"
    /\ exitStatus = 0
    /\ Len(repoBranches) = 2

----------------------------------------------------------------------------
\* The positions of a line that hold no white space.
Inked(l) == {i \in 1..Len(l) : l[i] # " "}

SetMin(S) == CHOOSE x \in S : \A y \in S : x <= y
SetMax(S) == CHOOSE x \in S : \A y \in S : x >= y

\* A line without its surrounding white space.
Core(l) == IF Inked(l) = {} THEN <<>> ELSE SubSeq(l, SetMin(Inked(l)), SetMax(Inked(l)))

HasMarker(l) == Core(l) # <<>> /\ Core(l)[1] = "*"

\* The text of a line: its core, without the marker when it has one.
LineText(l) == IF HasMarker(l) THEN Core(Tail(Core(l))) ELSE Core(l)

NonEmpty(t) == t # <<>>

\* C17: listBranches returns the texts of the lines of the output, each
\* without its surrounding white space and without the asterisk of the
\* marked line, in the order of the output, the empty ones left out; the
\* text of the marked line is the current branch and an entry of the
\* sequence; without a marked line the current branch is empty.
C17_ListBranches ==
    pc = "listed" =>
        LET texts  == [i \in 1..Len(output) |-> LineText(output[i])]
            marked == {i \in 1..Len(output) : HasMarker(output[i])}
        IN  /\ branches = SelectSeq(texts, NonEmpty)
            /\ \A i \in 1..Len(branches) :
                  /\ branches[i] # <<>>
                  /\ branches[i][1] # " "
                  /\ branches[i][Len(branches[i])] # " "
                  /\ branches[i][1] # "*"
            /\ marked = {} => currentBranch = <<>>
            /\ \A i \in marked :
                  /\ currentBranch = texts[i]
                  /\ currentBranch # <<>>
                  /\ \E j \in 1..Len(branches) :
                        /\ branches[j] = currentBranch
                        /\ j = Cardinality({k \in 1..i : texts[k] # <<>>})

\* A blank line, then the marked line of the detached HEAD, written with
\* a margin and followed by a space.
C17_Witness ==
    /\ pc = "listed"
    /\ output = << <<" ", " ">>, <<" ", " ", "*", " ", "a", " ", "b", " ">>, <<>> >>
    /\ branches = << <<"a", " ", "b">> >>
    /\ currentBranch = <<"a", " ", "b">>

----------------------------------------------------------------------------
DeleteRun == called \in {"deleteBranchesByPattern", "deleteBranchesByIndexes"}

InListing(b) == \E i \in 1..Len(listing) : listing[i] = b

\* C18: the listing that ends delete and Delete is made when no deletion
\* can follow, from an enumeration of its own: git has been run once for
\* the handler's snapshot, once per attempt and once more for the listing,
\* whose output is that of the repository as the attempts left it. A branch
\* of the snapshot is in the listing exactly when no attempt deleted it:
\* the branches deleted are not listed, the branches whose deletion failed
\* and the branches not attempted are.
C18_FinalListingIsFresh ==
    /\ listing # NoListing => pc = "exit"
    /\ (DeleteRun /\ pc = "exit" /\ statusMsg # "Error listing branches") =>
          /\ listing # NoListing
          /\ gitCalls = 2 + Len(attempts)
    /\ (DeleteRun /\ pc = "exit" /\ listing \notin {NoListing, ListingFailed}) =>
          /\ output = GitBranchLines(repoBranches, repoHead)
          /\ IsAscending(listing)
          /\ Range(listing) = Range(repoBranches)
          /\ Len(listing) = Len(repoBranches)
          /\ \A b \in Range(branches) : InListing(b) <=> ~WasDeleted(b)
          /\ \A i \in 1..Len(attempts) :
                InListing(attempts[i].branch) <=>
                    \A j \in 1..Len(attempts) :
                        attempts[j].branch = attempts[i].branch => ~attempts[j].ok
          /\ Len(listing) = Len(branches) - Cardinality(Succeeded)

\* A pattern that selects three branches: one deleted, one refused, one
\* the current branch and so not attempted.
C18_Witness ==
    /\ called = "deleteBranchesByPattern"
    /\ pc = "exit"
    /\ exitStatus = 0
    /\ Len(branches) = 3
    /\ Len(toDelete) = 3
    /\ Len(attempts) = 2
    /\ attempts[1].ok /\ ~attempts[2].ok
    /\ Len(listing) = 2
    /\ InListing(currentBranch)
    /\ InListing(attempts[2].branch)
    /\ ~InListing(attempts[1].branch)

----------------------------------------------------------------------------
\* C19 as stated: in every variant a deletion is invoked only after "yes"
\* has been read at a prompt; the older variant is the one checked here.
C19_EveryVariantConfirmationGated ==
    attempts # <<>> =>
        (prompted # <<>> /\ inputs # <<>> /\ inputs[Len(inputs)] = "yes")

----------------------------------------------------------------------------
\* The texts the user gave on the command line.
UserTexts == Range(args.operands)

\* C20: deleteBranch is invoked only on names of the snapshot the handler
\* enumerated, taken from the filtered list in its order, never on more
\* names than that list holds and, once the loop is over, on exactly as
\* many; one git call per invocation besides the enumerations. A text of
\* the command line that is no branch of the snapshot (a kept name, a
\* pattern, an index token) is never passed to deleteBranch.
C20_OnlySnapshotNamesDeleted ==
    /\ \A i \in 1..Len(attempts) :
          /\ attempts[i].branch \in Range(branches)
          /\ attempts[i].branch # <<>>
          /\ i <= Len(filteredBranches)
          /\ attempts[i].branch = filteredBranches[i]
    /\ \A t \in UserTexts :
          t \notin Range(branches) => \A i \in 1..Len(attempts) : attempts[i].branch # t
    /\ Range(filteredBranches) \subseteq Range(toDelete)
    /\ Range(toDelete) \subseteq Range(branches)
    /\ attempts # <<>> => called \in Handlers
    /\ Len(attempts) <= Len(filteredBranches)
    /\ report # NoReport =>
          /\ Len(attempts) = Len(filteredBranches)
          /\ report.total = Len(filteredBranches)
    /\ (pc = "deleteBranches" \/ report # NoReport) => gitCalls >= 1 + Len(attempts)
    /\ (called \in Handlers /\ pc # "exit") => gitCalls <= 1 + Len(attempts)

\* keep d, d being no branch of a repository of two branches: after "yes"
\* both branches are attempted, d is not.
C20_Witness ==
    /\ called = "keepBranches"
    /\ args.operands = <<Absent>>
    /\ Absent \notin Range(branches)
    /\ report # NoReport
    /\ Len(branches) = 2
    /\ Len(attempts) = 2
    /\ gitCalls = 3
    /\ pc = "exit"

----------------------------------------------------------------------------
AStarB == <<"a", "*", "b">>

\* How many asterisks the text begins with, and ends with.
LeadingStars(raw) ==
    Cardinality({k \in 1..Len(raw) : \A i \in 1..k : raw[i] = "*"})
TrailingStars(raw) ==
    Cardinality({k \in 1..Len(raw) : \A i \in (Len(raw) - k + 1)..Len(raw) : raw[i] = "*"})

\* The text between its leading and its trailing asterisks.
Between(raw) ==
    IF LeadingStars(raw) = Len(raw) THEN <<>>
    ELSE SubSeq(raw, LeadingStars(raw) + 1, Len(raw) - TrailingStars(raw))

\* The branches selected with the two flags and a bare pattern.
SelectedWith(leading, trailing, bare) ==
    LET Hit(n) == IF leading /\ trailing THEN OccursIn(bare, n)
                  ELSE IF leading THEN EndsWith(n, bare)
                  ELSE IF trailing THEN StartsWith(n, bare)
                  ELSE n = bare
    IN  SelectSeq(branches, Hit)

\* C21: in pattern mode the flags are those of the first and of the last
\* character of the argument, whatever the number of asterisks at either
\* end, and the bare pattern is the text between all the leading and all
\* the trailing asterisks, an asterisk inside it being an ordinary
\* character: **x selects what *x selects, x** what x* selects, an argument
\* made of asterisks only selects every branch, and a*b selects the
\* branches named a*b and no other, so neither a nor ab.
C21_WildcardFlagsAndBarePattern ==
    /\ patternMatch(AStarB, AStarB)
    /\ ~patternMatch(<<"a", "b">>, AStarB)
    /\ ~patternMatch(<<"a", "a", "b">>, AStarB)
    /\ (PatternRun /\ Selected) =>
          LET n        == Len(Arg)
              leading  == n > 0 /\ Arg[1] = "*"
              trailing == n > 0 /\ Arg[n] = "*"
              IsB(b)   == EndsWith(b, <<"b">>)
              IsA(b)   == StartsWith(b, <<"a">>)
              IsAStarB(b) == b = AStarB
              EndsAStarB(b) == EndsWith(b, AStarB)
          IN  /\ toDelete = SelectedWith(leading, trailing, Between(Arg))
              /\ (leading /\ LeadingStars(Arg) < n) =>
                    toDelete = SelectedWith(TRUE, trailing, Between(Arg))
              /\ (n > 0 /\ LeadingStars(Arg) = n) => toDelete = branches
              /\ Arg \in { <<"*", "b">>, <<"*", "*", "b">> } =>
                    toDelete = SelectSeq(branches, IsB)
              /\ Arg \in { <<"a", "*">>, <<"a", "*", "*">> } =>
                    toDelete = SelectSeq(branches, IsA)
              /\ Arg = AStarB =>
                    /\ toDelete = SelectSeq(branches, IsAStarB)
                    /\ <<"a">> \notin Range(toDelete)
                    /\ <<"a", "b">> \notin Range(toDelete)
              /\ Arg = <<"*">> \o AStarB =>
                    toDelete = SelectSeq(branches, EndsAStarB)

\* **b on the branches a and ab: ab alone is selected, and deleted.
C21_Witness ==
    /\ PatternRun
    /\ Arg = <<"*", "*", "b">>
    /\ Range(branches) = { <<"a">>, <<"a", "b">> }
    /\ toDelete = << <<"a", "b">> >>
    /\ Len(attempts) = 1
    /\ attempts[1].ok
    /\ pc = "exit"

====
